---- MODULE Spec2Model ----
(***************************************************************************)
(* A model of the "More Upload Stats" plugin: the PeriodicJob thread       *)
(* (src/__init__.py, src/upload_stats/base.py), the statistics aggregator  *)
(* (Plugin.track_file_upload / load_stats / save_stats), the update check, *)
(* the report functions (thresholds, tables, playlist), the jobs of the    *)
(* package's Plugin.init, the reset commands with their threads, backup    *)
(* and restore, a callback that raises, the playlist of the single-file    *)
(* plugin, the self-update, and uploads next to the backup job.            *)
(*                                                                         *)
(* Time is a discrete clock `now`; every read of time() reads it.  Delays  *)
(* are drawn from 0..MaxDelay: the claims about PeriodicJob quantify over  *)
(* every delay value, so the plugin's factors (3600, * 60) are not kept.   *)
(***************************************************************************)
EXTENDS Integers, Sequences, FiniteSets, TLC

\* ---------------------------------------------------------------- bounds
MaxTime == 5
MaxDelay == 2

\* PeriodicJob._min_delay, the polling tick
MinDelay == 1

\* "Job" is a PeriodicJob built with arbitrary constructor arguments;
\* "AutoUpdate", "AutoBuilder" and "AutoBackup" are the jobs Plugin.init builds.
Jobs == {"Job", "AutoUpdate", "AutoBuilder", "AutoBackup"}

None == 0
\* the tag that stands for a callable delay argument
Callable == 0 - 1
NoJob == "none"

VARIABLES
    now,          \* the clock read by time()
    setting,      \* what the delay callable returns when called now
    pc,           \* position of each job thread
    delay,        \* PeriodicJob.delay: a number, or Callable
    before_start, \* the job whose first_round before_start waits on, or NoJob
    stopped,      \* PeriodicJob.__stopped
    pause,        \* PeriodicJob.__pause, the Event's flag (TRUE: not paused)
    first_round,  \* PeriodicJob.first_round, the Event's flag
    last_run,     \* PeriodicJob.last_run (None is 0)
    d,            \* the local `delay` of time_to_work
    wake,         \* the time sleep(_min_delay) returns at the earliest
    joining,      \* the job the caller of stop(wait=True) is joining, or NoJob
    startedAt,    \* history: the time the running invocation of update began
    returned,     \* history: update has returned at least once
    inRound       \* history: invocations of update in the current loop round

jobVars == <<now, setting, pc, delay, before_start, stopped, pause, first_round,
             last_run, d, wake, joining, startedAt, returned, inRound>>

VARIABLES
    stats,        \* Plugin.stats, the counters map of the running instance
    disk,         \* the stats file (config.stats_file)
    loaded,       \* Plugin.init has run in the current process
    nUp,          \* history: upload events seen for each real path
    sumSize       \* history: sum of the sizes stat returned at those events

VARIABLES
    empty_stats,  \* Plugin.empty_stats (default_stats in the single-file revision)
    shared,       \* the keys whose value in stats is the very object empty_stats holds
    reset_flag,   \* Plugin.reset_flag
    asked,        \* history: reset was called, and reset_abort was not since
    pending,      \* history: reset was called, and since then neither
                  \* reset_abort was called nor a reset performed
    backups,      \* the files of config.backup_folder, oldest first
    bak,          \* the .bak.json file reset_stats writes
    page,         \* the statistics page (config.stats_html_file)
    playlist,     \* the playlist file (config.playlist_file)
    init_error,   \* Plugin.init ended with an exception
    host,         \* position of the host's thread inside track_file_upload
    cmd,          \* position of the thread the command decorator started
    failedAt,     \* history: the time check_update last caught an exception
    inp,          \* the dict a report function is called on (stats["user"] or
                  \* stats["file"]): one entry per key, with its total
    out,          \* the call of a report function and what it returned
    default_songs, \* the list object that is the default of create_m3u's songs
    upd           \* BasePlugin._update: its position, its locals, the plugin's
                  \* folder and the host's record of the plugin

resetVars == <<reset_flag, asked, pending, backups, bak>>
fileVars == <<page, playlist>>
threadVars == <<host, cmd>>
callVars == <<init_error, failedAt, inp, out, default_songs, upd>>

statsVars == <<stats, disk, loaded, nUp, sumSize, empty_stats, shared,
               resetVars, fileVars, threadVars, callVars>>

vars == <<jobVars, statsVars>>

Min(a, b) == IF a < b THEN a ELSE b

\* ------------------------------------------------------- statistics

\* bounds of the upload events
MaxUploads == 2
MaxSize == 2
MaxMTime == 1

Users == {"u1", "u2"}
Files == {"/m/a.mp3", "/m/b.txt"}
\* the virtual path the host shares a real path under
VirtualPath(real_path) == IF real_path = "/m/a.mp3" THEN "m\\a.mp3" ELSE "m\\b.txt"
\* datetime.now().weekday() is in 0..6; the events of the model fall on a
\* Monday or a Sunday, the two ends of the day array
Weekdays == {0, 6}

\* what Path(real_path).stat() does: a result, or an exception
StatResults ==
    [ok : {TRUE}, st_size : 1..MaxSize, st_mtime : 1..MaxMTime, raises : {"no"}]
    \cup [ok : {FALSE}, st_size : {0}, st_mtime : {0},
          raises : {"FileNotFoundError", "PermissionError"}]

EmptyMap == [k \in {} |-> 0]

\* Plugin.stats, the class attribute: {"file": {}, "user": {}, "day": [0] * 7}
EmptyStats == [file |-> EmptyMap, user |-> EmptyMap, day |-> [i \in 1..7 |-> 0]]

RECURSIVE SeqSum(_)
SeqSum(q) == IF q = <<>> THEN 0 ELSE Head(q) + SeqSum(Tail(q))

RECURSIVE MapSum(_, _)
MapSum(m, field) ==
    IF DOMAIN m = {} THEN 0
    ELSE LET k == CHOOSE x \in DOMAIN m : TRUE
         IN m[k][field] + MapSum([x \in DOMAIN m \ {k} |-> m[x]], field)

RECURSIVE FnSum(_, _)
FnSum(f, S) ==
    IF S = {} THEN 0
    ELSE LET k == CHOOSE x \in S : TRUE IN f[k] + FnSum(f, S \ {k})

\* the keys of a dict in the order json.dumps writes them
RECURSIVE KeySeq(_)
KeySeq(S) ==
    IF S = {} THEN <<>>
    ELSE LET k == CHOOSE x \in S : TRUE IN <<k>> \o KeySeq(S \ {k})

\* json.dumps of one file entry and of one user entry: the members in the
\* order of the dict literal
FileMembers(e) ==
    << <<"total", e.total>>, <<"virtual_path", e.virtual_path>>,
       <<"last_user", e.last_user>>, <<"last_modified", e.last_modified>>,
       <<"file_size", e.file_size>>, <<"total_bytes", e.total_bytes>> >>

UserMembers(e) ==
    << <<"total", e.total>>, <<"last_file", e.last_file>>,
       <<"last_real_file", e.last_real_file>>, <<"total_bytes", e.total_bytes>> >>

\* the value json.loads gives a key of an object: the last member of that name
Member(ms, key) ==
    LET idx == {i \in DOMAIN ms : ms[i][1] = key}
    IN ms[CHOOSE i \in idx : \A k \in idx : k <= i][2]

Keys(ms) == {ms[i][1] : i \in DOMAIN ms}

\* json.dumps of the "file" and of the "user" dict: one member per key
FileObjectDumps(m) ==
    LET ks == KeySeq(DOMAIN m)
    IN [i \in 1..Len(ks) |-> <<ks[i], FileMembers(m[ks[i]])>>]

UserObjectDumps(m) ==
    LET ks == KeySeq(DOMAIN m)
    IN [i \in 1..Len(ks) |-> <<ks[i], UserMembers(m[ks[i]])>>]

Dumps_NoDay(s) ==
    << <<"file", FileObjectDumps(s.file)>>,
       <<"user", UserObjectDumps(s.user)>> >>

\* json.dumps(self.stats): the document is the list of members of the object
Dumps(s) ==
    << <<"file", FileObjectDumps(s.file)>>,
       <<"user", UserObjectDumps(s.user)>>,
       <<"day", s.day>> >>

FileLoads(ms) ==
    [total |-> Member(ms, "total"), virtual_path |-> Member(ms, "virtual_path"),
     last_user |-> Member(ms, "last_user"), last_modified |-> Member(ms, "last_modified"),
     file_size |-> Member(ms, "file_size"), total_bytes |-> Member(ms, "total_bytes")]

UserLoads(ms) ==
    [total |-> Member(ms, "total"), last_file |-> Member(ms, "last_file"),
     last_real_file |-> Member(ms, "last_real_file"),
     total_bytes |-> Member(ms, "total_bytes")]

FileObjectLoads(ms) == [k \in Keys(ms) |-> FileLoads(Member(ms, k))]

UserObjectLoads(ms) == [k \in Keys(ms) |-> UserLoads(Member(ms, k))]

\* json.loads(text) followed by self.stats.update(...): a key of the document
\* replaces that key of the counters map, the others stay
LoadsInto(s, doc) ==
    [file |-> IF "file" \in Keys(doc)
                THEN FileObjectLoads(Member(doc, "file")) ELSE s.file,
     user |-> IF "user" \in Keys(doc)
                THEN UserObjectLoads(Member(doc, "user")) ELSE s.user,
     day  |-> IF "day" \in Keys(doc) THEN Member(doc, "day") ELSE s.day]

Missing == [kind |-> "missing", doc |-> <<>>]

\* a stats file json.loads raises JSONDecodeError on
Corrupt == [kind |-> "corrupt", doc |-> <<>>]

\* the keys of the counters map
StatKeys == {"file", "user", "day"}

\* save_stats: path.write_text(json.dumps(self.stats))
SaveStats(s) == [kind |-> "json", doc |-> Dumps(s)]

LoadStats_NoCreate(s, file) ==
    IF file.kind = "json" THEN <<LoadsInto(s, file.doc), file>> ELSE <<s, file>>

\* load_stats, as <<stats, file>> after the call: the file is read into the
\* counters map; a missing file is created from the counters map
LoadStats(s, file) ==
    IF file.kind = "missing" THEN <<s, SaveStats(s)>>
    ELSE IF file.kind = "corrupt" THEN <<s, file>>
    ELSE <<LoadsInto(s, file.doc), file>>

\* self.stats.update(stats) puts the objects json.loads built under the keys of
\* the document; the other keys keep the objects the class attribute holds
SharedAfterLoad(sh, file) ==
    IF file.kind = "json" THEN sh \ Keys(file.doc) ELSE sh

\* empty_stats = stats.copy() and self.stats = self.empty_stats.copy() are
\* shallow: a dict or list both maps hold is changed in both by an assignment
\* to one of its items
Aliased(e, s, sh) == [k \in StatKeys |-> IF k \in sh THEN s[k] ELSE e[k]]

\* "total_bytes": info.get("total_bytes", 0) + stat.st_size if stat else 0
\* is the conditional expression (... + ...) if stat else 0
TotalBytes(before, st) == IF st.ok THEN before + st.st_size ELSE 0

\* dict.get(key, {}).get(field, 0)
Get(m, key, field) == IF key \in DOMAIN m THEN m[key][field] ELSE 0

Put_Only(m, key, val) == [k \in {key} |-> val]

\* dict[key] = val
Put(m, key, val) == [k \in DOMAIN m \cup {key} |-> IF k = key THEN val ELSE m[k]]

DayBump_Set(day, weekday) == [day EXCEPT ![weekday + 1] = 1]

\* self.stats["day"][weekday] = self.stats["day"][weekday] + 1
DayBump(day, weekday) == [day EXCEPT ![weekday + 1] = @ + 1]

\* the counters map track_file_upload leaves in self.stats
Tracked(s, user, virtual_path, real_path, st, weekday) ==
    [file |-> Put(s.file, real_path,
                  [total |-> Get(s.file, real_path, "total") + 1,
                   virtual_path |-> virtual_path,
                   last_user |-> user,
                   last_modified |-> IF st.ok THEN st.st_mtime ELSE 0,
                   file_size |-> IF st.ok THEN st.st_size ELSE 0,
                   total_bytes |-> TotalBytes(Get(s.file, real_path, "total_bytes"), st)]),
     user |-> Put(s.user, user,
                  [total |-> Get(s.user, user, "total") + 1,
                   last_file |-> virtual_path,
                   last_real_file |-> real_path,
                   total_bytes |-> TotalBytes(Get(s.user, user, "total_bytes"), st)]),
     day  |-> DayBump(s.day, weekday)]

Caught_OnlyNotFound(st) == st.raises \in {"no", "FileNotFoundError"}

\* the exceptions of stat() the handler catches: FileNotFoundError, Exception
Caught(st) == st.raises \in {"no", "FileNotFoundError", "PermissionError"}

\* track_file_upload(user, virtual_path, real_path), with the outcome of stat()
\* and of datetime.now().weekday(); it ends with save_stats()
TrackFileUpload(user, virtual_path, real_path, st, weekday) ==
    /\ loaded
    /\ FnSum(nUp, Files) < MaxUploads
    /\ nUp' = [nUp EXCEPT ![real_path] = @ + 1]
    /\ sumSize' = [sumSize EXCEPT ![real_path] = @ + st.st_size]
    /\ host = "idle"
    /\ IF Caught(st)
         THEN /\ stats' = Tracked(stats, user, virtual_path, real_path, st, weekday)
              /\ empty_stats' = Aliased(empty_stats, stats', shared)
              /\ disk' = SaveStats(stats')
         ELSE UNCHANGED <<stats, empty_stats, disk>>
    /\ UNCHANGED <<loaded, shared, resetVars, fileVars, threadVars, callVars>>
    /\ UNCHANGED jobVars

\* Plugin.init of a new process: load_stats on the class's counters map
PluginLoad ==
    /\ ~loaded
    /\ ~init_error
    /\ disk.kind # "corrupt"
    /\ loaded' = TRUE
    /\ stats' = LoadStats(stats, disk)[1]
    /\ disk' = LoadStats(stats, disk)[2]
    /\ shared' = SharedAfterLoad(shared, disk)
    /\ UNCHANGED <<nUp, sumSize, empty_stats>>
    /\ UNCHANGED <<resetVars, fileVars, threadVars, callVars>>
    /\ UNCHANGED jobVars

\* the host process ends; the next one starts from the class attributes
Restart ==
    /\ loaded
    /\ host = "idle" /\ cmd = "idle"
    /\ loaded' = FALSE
    /\ stats' = EmptyStats
    /\ empty_stats' = EmptyStats
    /\ shared' = StatKeys
    /\ reset_flag' = FALSE
    /\ asked' = FALSE
    /\ pending' = FALSE
    /\ default_songs' = <<>>
    /\ UNCHANGED <<disk, nUp, sumSize, backups, bak>>
    /\ UNCHANGED <<fileVars, threadVars, init_error, failedAt, inp, out, upd>>
    /\ UNCHANGED jobVars

\* a file that does not exist
NoFile == [kind |-> "missing", day |-> <<>>, songs |-> <<>>]

NoCall == [fn |-> "none", rev |-> "", auto |-> FALSE, arg |-> 0,
           raises |-> "no", num |-> 0, rows |-> <<>>]

\* the files of the plugin's folder; self.protected names backup.tar.gz
PluginFiles == {"PLUGININFO", "__init__.py", "base.py", "backup.tar.gz"}

Protected == {"backup.tar.gz"}

\* no update has been started: the plugin is installed and enabled
NoUpdate ==
    [pc |-> "idle", enabled |-> TRUE, disabled |-> FALSE, files |-> PluginFiles \ Protected,
     downloaded |-> FALSE, rollback_needed |-> FALSE, rollback_success |-> FALSE,
     error |-> "", reenable |-> ""]

\* the class attributes of a new process and the files of the installation
CountersInit(files, playlists) ==
    /\ stats = EmptyStats
    /\ disk \in files
    /\ loaded = FALSE
    /\ nUp = [f \in Files |-> 0]
    /\ sumSize = [f \in Files |-> 0]
    /\ empty_stats = EmptyStats
    /\ shared = StatKeys
    /\ reset_flag = FALSE
    /\ asked = FALSE
    /\ pending = FALSE
    /\ backups = EmptyMap
    /\ bak = Missing
    /\ page = NoFile
    /\ playlist \in playlists
    /\ init_error = FALSE
    /\ host = "idle"
    /\ cmd = "idle"
    /\ failedAt = None
    /\ out = NoCall
    /\ default_songs = <<>>
    /\ upd = NoUpdate

PluginStateInit(files, playlists) == CountersInit(files, playlists) /\ inp = EmptyMap

\* a first start (no stats file yet) or a start after an earlier run
StatsInit(files) == PluginStateInit(files, {NoFile})

\* ------------------------------------------------------- the report

\* bounds of the report functions' inputs
MaxTotal == 4
MaxTop == 2

\* create_m3u is called at most this many times in one run
MaxCalls == 2

\* the keys of the report functions' inputs; guess_type knows .mp3 and .wav
\* as audio, .txt as text, and nothing about "/m/e"
Library == {"/m/a.mp3", "/m/b.txt", "/m/c.wav", "/m/d.mp3", "/m/e"}

\* mimetypes.guess_type(file)[0]; "" stands for None
GuessType(file) ==
    CASE file \in {"/m/a.mp3", "/m/d.mp3"} -> "audio/mpeg"
      [] file = "/m/c.wav" -> "audio/x-wav"
      [] file = "/m/b.txt" -> "text/plain"
      [] OTHER -> ""

IsAudio_Any(file) == GuessType(file) # ""

\* type and type.startswith("audio")
IsAudio(file) == GuessType(file) \in {"audio/mpeg", "audio/x-wav"}

\* sorted(set_of_numbers)
RECURSIVE SortedAsc(_)
SortedAsc(S) ==
    IF S = {} THEN <<>>
    ELSE LET lo == CHOOSE x \in S : \A y \in S : x <= y
         IN <<lo>> \o SortedAsc(S \ {lo})

Remove(q, i) == [k \in 1..(Len(q) - 1) |-> IF k < i THEN q[k] ELSE q[k + 1]]

\* sorted(keys, key=total, reverse=True): the sort is stable, and with
\* reverse=True keys of equal total keep the order they had in the dict
RECURSIVE SortedByTotal(_, _)
SortedByTotal(ks, m) ==
    IF ks = <<>> THEN <<>>
    ELSE LET i == CHOOSE x \in DOMAIN ks :
                     /\ \A y \in DOMAIN ks : m[ks[y]].total <= m[ks[x]].total
                     /\ \A y \in 1..(x - 1) : m[ks[y]].total < m[ks[x]].total
         IN <<ks[i]>> \o SortedByTotal(Remove(ks, i), m)

\* set(map(lambda i: i["total"], m.values()))
UniqTotals(m) == {m[k].total : k \in DOMAIN m}

\* sorted(uniq_totals)[int(len(uniq_totals) * .25)]; an index past the end of
\* the list is an IndexError, here the value 0 - 1
Percentile(uniq_totals) ==
    LET sorted == SortedAsc(uniq_totals)
        index == (Cardinality(uniq_totals) * 25) \div 100
    IN IF index + 1 \in DOMAIN sorted THEN sorted[index + 1] ELSE 0 - 1

\* user_threshold() / file_threshold() of the package, on the dict of that
\* kind, as <<exception, value>>
Threshold(m, automatic, configured) ==
    IF automatic
      THEN IF DOMAIN m = {} THEN <<"no", 0>> ELSE <<"no", Percentile(UniqTotals(m))>>
      ELSE <<"no", configured>>

\* user_threshold() / file_threshold() of the single-file revision
ThresholdSingleFile(m, automatic, configured) ==
    IF automatic
      THEN IF Percentile(UniqTotals(m)) = 0 - 1
             THEN <<"IndexError", 0>> ELSE <<"no", Percentile(UniqTotals(m))>>
      ELSE <<"no", configured>>

Shown_AtLeast(total, threshold) == total >= threshold

\* user_stats / file_stats: if total <= threshold: continue
Shown(total, threshold) == ~(total <= threshold)

\* user_stats(threshold) / file_stats(threshold): the keys of the rows, in the
\* order of the table
RowsOf(m, threshold) ==
    SelectSeq(SortedByTotal(KeySeq(DOMAIN m), m), LAMBDA k : Shown(m[k].total, threshold))

\* create_m3u: the loop over files; lines holds the entries written so far
RECURSIVE M3uLoop(_, _, _, _)
M3uLoop(files, i, lines, max_files) ==
    IF i > Len(files) THEN lines
    ELSE LET written == IF IsAudio(files[i]) THEN Append(lines, files[i]) ELSE lines
         IN IF Len(written) = max_files THEN written
            ELSE M3uLoop(files, i + 1, written, max_files)

\* create_m3u(title, files, out_file, max_files): the entries of the playlist
CreateM3u(files, max_files) == M3uLoop(files, 1, <<>>, max_files)

\* rebuild_playlist(total): the entries written to the playlist file
RebuildPlaylist(s, total) ==
    CreateM3u(SortedByTotal(KeySeq(DOMAIN s.file), s.file), total)

\* the two revisions of user_threshold / file_threshold
Revisions == {"package", "single-file"}

\* user_threshold() / file_threshold() is called
CallThreshold(rev, automatic, configured) ==
    /\ out.fn = "none"
    /\ LET r == IF rev = "package" THEN Threshold(inp, automatic, configured)
                ELSE ThresholdSingleFile(inp, automatic, configured)
       IN out' = [fn |-> "threshold", rev |-> rev, auto |-> automatic, arg |-> configured,
                  raises |-> r[1], num |-> r[2], rows |-> <<>>]
    /\ UNCHANGED <<stats, disk, loaded, nUp, sumSize, empty_stats, shared,
                   resetVars, fileVars, threadVars, init_error, failedAt, inp,
                   default_songs, upd>>
    /\ UNCHANGED jobVars

\* user_stats(threshold) / file_stats(threshold) is called
CallRows(threshold) ==
    /\ out.fn = "none"
    /\ out' = [fn |-> "rows", rev |-> "package", auto |-> FALSE, arg |-> threshold,
               raises |-> "no", num |-> 0, rows |-> RowsOf(inp, threshold)]
    /\ UNCHANGED <<stats, disk, loaded, nUp, sumSize, empty_stats, shared,
                   resetVars, fileVars, threadVars, init_error, failedAt, inp,
                   default_songs, upd>>
    /\ UNCHANGED jobVars

\* build_html() with no thresholds given: the threshold is user_threshold() /
\* file_threshold(), and the table is user_stats / file_stats of it
CallBuildHtml(automatic, configured) ==
    /\ out.fn = "none"
    /\ LET threshold == Threshold(inp, automatic, configured)[2]
       IN out' = [fn |-> "build_html", rev |-> "package", auto |-> automatic,
                  arg |-> configured, raises |-> "no", num |-> threshold,
                  rows |-> RowsOf(inp, threshold)]
    /\ UNCHANGED <<stats, disk, loaded, nUp, sumSize, empty_stats, shared,
                   resetVars, fileVars, threadVars, init_error, failedAt, inp,
                   default_songs, upd>>
    /\ UNCHANGED jobVars

\* rebuild_playlist(total) is called
CallPlaylist(total) ==
    /\ out.fn = "none"
    /\ out' = [fn |-> "playlist", rev |-> "package", auto |-> FALSE, arg |-> total,
               raises |-> "no", num |-> 0, rows |-> RebuildPlaylist([file |-> inp], total)]
    /\ UNCHANGED <<stats, disk, loaded, nUp, sumSize, empty_stats, shared,
                   resetVars, fileVars, threadVars, init_error, failedAt, inp,
                   default_songs, upd>>
    /\ UNCHANGED jobVars

\* ------------------------------------------------------- PeriodicJob

\* __init__: self.delay = delay or self.delay (the class default is 1)
CtorDelay(arg) == IF arg = Callable THEN Callable ELSE IF arg = 0 THEN 1 ELSE arg

\* the first line of time_to_work: delay() if callable(delay) else delay
CurrentDelay(j) == IF delay[j] = Callable THEN setting ELSE delay[j]

TimeToWork_AtLeast(dl, lr, t) == dl # 0 /\ (lr = None \/ t - lr >= dl)

\* delay and (not last_run or time() - last_run > delay)
TimeToWork(dl, lr, t) == dl # 0 /\ (lr = None \/ t - lr > dl)

\* Thread.start()
Start(j) ==
    /\ pc[j] = "new"
    /\ pc' = [pc EXCEPT ![j] = "before"]
    /\ UNCHANGED <<now, setting, delay, before_start, stopped, pause, first_round,
                   last_run, d, wake, joining, startedAt, returned, inRound>>
    /\ UNCHANGED statsVars

BeforeStart_NoWait(j) ==
    /\ pc[j] = "before"
    /\ pc' = [pc EXCEPT ![j] = "while"]
    /\ UNCHANGED <<now, setting, delay, before_start, stopped, pause, first_round,
                   last_run, d, wake, joining, startedAt, returned, inRound>>
    /\ UNCHANGED statsVars

\* run: if self.before_start: self.before_start()
\* (the plugin's before_start is first_round.wait() of another job)
BeforeStart(j) ==
    /\ pc[j] = "before"
    /\ before_start[j] # NoJob => first_round[before_start[j]]
    /\ pc' = [pc EXCEPT ![j] = "while"]
    /\ UNCHANGED <<now, setting, delay, before_start, stopped, pause, first_round,
                   last_run, d, wake, joining, startedAt, returned, inRound>>
    /\ UNCHANGED statsVars

\* run: while not self.__stopped
While(j) ==
    /\ pc[j] = "while"
    /\ pc' = [pc EXCEPT ![j] = IF stopped[j] THEN "done" ELSE "delay"]
    /\ inRound' = [inRound EXCEPT ![j] = 0]
    /\ UNCHANGED <<now, setting, delay, before_start, stopped, pause, first_round,
                   last_run, d, wake, joining, startedAt, returned>>
    /\ UNCHANGED statsVars

\* time_to_work: delay = self.delay() if callable(self.delay) else self.delay
EvalDelay(j) ==
    /\ pc[j] = "delay"
    /\ d' = [d EXCEPT ![j] = CurrentDelay(j)]
    /\ pc' = [pc EXCEPT ![j] = "wait"]
    /\ UNCHANGED <<now, setting, delay, before_start, stopped, pause, first_round,
                   last_run, wake, joining, startedAt, returned, inRound>>
    /\ UNCHANGED statsVars

\* time_to_work: self.__pause.wait() blocks until the Event is set
PauseWait(j) ==
    /\ pc[j] = "wait"
    /\ pause[j]
    /\ pc' = [pc EXCEPT ![j] = "check"]
    /\ UNCHANGED <<now, setting, delay, before_start, stopped, pause, first_round,
                   last_run, d, wake, joining, startedAt, returned, inRound>>
    /\ UNCHANGED statsVars

CheckTime_FirstRoundEarly(j) ==
    /\ pc[j] = "check"
    /\ first_round' = [first_round EXCEPT ![j] = TRUE]
    /\ IF TimeToWork(d[j], last_run[j], now)
         THEN /\ pc' = [pc EXCEPT ![j] = "update"]
              /\ startedAt' = [startedAt EXCEPT ![j] = now]
              /\ inRound' = [inRound EXCEPT ![j] = @ + 1]
         ELSE /\ pc' = [pc EXCEPT ![j] = "round"]
              /\ UNCHANGED <<startedAt, inRound>>
    /\ UNCHANGED <<now, setting, delay, before_start, stopped, pause,
                   last_run, d, wake, joining, returned>>
    /\ UNCHANGED statsVars

\* time_to_work's result decides whether run calls self.update()
CheckTime(j) ==
    /\ pc[j] = "check"
    /\ IF TimeToWork(d[j], last_run[j], now)
         THEN /\ pc' = [pc EXCEPT ![j] = "update"]
              /\ startedAt' = [startedAt EXCEPT ![j] = now]
              /\ inRound' = [inRound EXCEPT ![j] = @ + 1]
         ELSE /\ pc' = [pc EXCEPT ![j] = "round"]
              /\ UNCHANGED <<startedAt, inRound>>
    /\ UNCHANGED <<now, setting, delay, before_start, stopped, pause, first_round,
                   last_run, d, wake, joining, returned>>
    /\ UNCHANGED statsVars

\* self.update() returns
UpdateReturn(j) ==
    /\ pc[j] = "update"
    /\ pc' = [pc EXCEPT ![j] = "lastrun"]
    /\ returned' = [returned EXCEPT ![j] = TRUE]
    /\ startedAt' = [startedAt EXCEPT ![j] = 0]
    /\ UNCHANGED <<now, setting, delay, before_start, stopped, pause, first_round,
                   last_run, d, wake, joining, inRound>>
    /\ UNCHANGED statsVars

\* self.last_run = time()
SetLastRun(j) ==
    /\ pc[j] = "lastrun"
    /\ last_run' = [last_run EXCEPT ![j] = now]
    /\ pc' = [pc EXCEPT ![j] = "round"]
    /\ UNCHANGED <<now, setting, delay, before_start, stopped, pause, first_round,
                   d, wake, joining, startedAt, returned, inRound>>
    /\ UNCHANGED statsVars

\* if not first_round.is_set(): first_round.set(); then sleep(_min_delay) begins
FirstRound(j) ==
    /\ pc[j] = "round"
    /\ first_round' = [first_round EXCEPT ![j] = TRUE]
    /\ wake' = [wake EXCEPT ![j] = Min(now + MinDelay, MaxTime)]
    /\ pc' = [pc EXCEPT ![j] = "sleep"]
    /\ UNCHANGED <<now, setting, delay, before_start, stopped, pause,
                   last_run, d, joining, startedAt, returned, inRound>>
    /\ UNCHANGED statsVars

\* sleep(self._min_delay) returns
Sleep(j) ==
    /\ pc[j] = "sleep"
    /\ now >= wake[j]
    /\ wake' = [wake EXCEPT ![j] = 0]
    /\ pc' = [pc EXCEPT ![j] = "while"]
    /\ UNCHANGED <<now, setting, delay, before_start, stopped, pause, first_round,
                   last_run, d, joining, startedAt, returned, inRound>>
    /\ UNCHANGED statsVars

\* one step of run outside the callback
JobLoop(j) ==
    \/ BeforeStart(j)
    \/ While(j)
    \/ EvalDelay(j)
    \/ PauseWait(j)
    \/ CheckTime(j)
    \/ SetLastRun(j)
    \/ FirstRound(j)
    \/ Sleep(j)

\* one step of the thread of job j
JobStep(j) == JobLoop(j) \/ UpdateReturn(j)

Alive(j) == pc[j] \notin {"none", "new", "done"}

\* stop(wait): self.__stopped = True; if wait and self.is_alive(): self.join()
Stop(j, wait) ==
    /\ joining = NoJob
    /\ pc[j] # "none"
    /\ stopped' = [stopped EXCEPT ![j] = TRUE]
    /\ joining' = IF wait /\ Alive(j) THEN j ELSE NoJob
    /\ UNCHANGED <<now, setting, pc, delay, before_start, pause, first_round,
                   last_run, d, wake, startedAt, returned, inRound>>
    /\ UNCHANGED statsVars

\* Thread.join() returns once the run loop has exited
JoinReturn ==
    /\ joining # NoJob
    /\ pc[joining] = "done"
    /\ joining' = NoJob
    /\ UNCHANGED <<now, setting, pc, delay, before_start, stopped, pause, first_round,
                   last_run, d, wake, startedAt, returned, inRound>>
    /\ UNCHANGED statsVars

\* pause(): self.__pause.clear()
Pause(j) ==
    /\ joining = NoJob
    /\ pc[j] # "none"
    /\ pause[j]
    /\ pause' = [pause EXCEPT ![j] = FALSE]
    /\ UNCHANGED <<now, setting, pc, delay, before_start, stopped, first_round,
                   last_run, d, wake, joining, startedAt, returned, inRound>>
    /\ UNCHANGED statsVars

\* resume(): self.__pause.set()
Resume(j) ==
    /\ joining = NoJob
    /\ pc[j] # "none"
    /\ ~pause[j]
    /\ pause' = [pause EXCEPT ![j] = TRUE]
    /\ UNCHANGED <<now, setting, pc, delay, before_start, stopped, first_round,
                   last_run, d, wake, joining, startedAt, returned, inRound>>
    /\ UNCHANGED statsVars

\* the clock advances
Tick ==
    /\ now < MaxTime
    /\ now' = now + 1
    /\ UNCHANGED <<setting, pc, delay, before_start, stopped, pause, first_round,
                   last_run, d, wake, joining, startedAt, returned, inRound>>
    /\ UNCHANGED statsVars

\* the user edits the setting the delay callable reads
SettingsChange ==
    /\ \E v \in 0..MaxDelay : v # setting /\ setting' = v
    /\ UNCHANGED <<now, pc, delay, before_start, stopped, pause, first_round,
                   last_run, d, wake, joining, startedAt, returned, inRound>>
    /\ UNCHANGED statsVars

\* ------------------------------------------ one PeriodicJob, any arguments

JobsInit(built, cfgDelay, cfgBefore, settings) ==
    /\ now = 1
    /\ setting \in settings
    /\ pc = [j \in Jobs |-> IF j \in built THEN "new" ELSE "none"]
    /\ delay = [j \in Jobs |-> CtorDelay(cfgDelay[j])]
    /\ before_start = cfgBefore
    /\ stopped = [j \in Jobs |-> FALSE]
    /\ pause = [j \in Jobs |-> TRUE]
    /\ first_round = [j \in Jobs |-> FALSE]
    /\ last_run = [j \in Jobs |-> None]
    /\ d = [j \in Jobs |-> 0]
    /\ wake = [j \in Jobs |-> 0]
    /\ joining = NoJob
    /\ startedAt = [j \in Jobs |-> 0]
    /\ returned = [j \in Jobs |-> FALSE]
    /\ inRound = [j \in Jobs |-> 0]

JobInit(built, cfgDelay, cfgBefore, settings, files) ==
    /\ JobsInit(built, cfgDelay, cfgBefore, settings)
    /\ StatsInit(files)

\* PeriodicJob(delay=arg, update=...) for every arg: a number or a callable
InitJob ==
    \E arg \in (0..MaxDelay) \cup {Callable} :
        JobInit({"Job"}, [j \in Jobs |-> arg], [j \in Jobs |-> NoJob],
                0..MaxDelay, {Missing})

NextJob ==
    \/ Start("Job")
    \/ JobStep("Job")
    \/ \E wait \in BOOLEAN : Stop("Job", wait)
    \/ JoinReturn
    \/ Pause("Job")
    \/ Resume("Job")
    \/ Tick
    \/ SettingsChange

SpecJob == InitJob /\ [][NextJob]_vars

\* every thread that can take a step eventually takes one, the clock advances,
\* and the callback always returns
FairSpecJob ==
    SpecJob /\ WF_vars(Start("Job")) /\ WF_vars(JobStep("Job"))
            /\ WF_vars(JoinReturn) /\ WF_vars(Tick)

\* ------------------------------------------ the jobs of the plugin

\* Plugin.init: BasePlugin.init starts AutoUpdate (a fixed delay), the stats are
\* loaded, then AutoBuilder is started (its delay is read from the settings on
\* every round, and it waits for AutoUpdate's first round before it starts).
\* The SettingsWatcher job shares no state with these two and is left out.
PluginInit ==
    /\ ~loaded
    /\ pc["AutoUpdate"] = "none"
    /\ \E arg \in 1..MaxDelay :
         delay' = [delay EXCEPT !["AutoUpdate"] = CtorDelay(arg),
                                !["AutoBuilder"] = CtorDelay(Callable)]
    /\ before_start' = [before_start EXCEPT !["AutoBuilder"] = "AutoUpdate"]
    /\ pc' = [pc EXCEPT !["AutoUpdate"] = "before", !["AutoBuilder"] = "before"]
    /\ loaded' = TRUE
    /\ stats' = LoadStats(EmptyStats, disk)[1]
    /\ disk' = LoadStats(EmptyStats, disk)[2]
    /\ shared' = SharedAfterLoad(StatKeys, disk)
    /\ UNCHANGED <<now, setting, stopped, pause, first_round, last_run, d, wake,
                   joining, startedAt, returned, inRound>>
    /\ UNCHANGED <<nUp, sumSize, empty_stats, resetVars, fileVars, threadVars, callVars>>

\* Plugin.stop: stop(False) on every job
PluginStop ==
    /\ loaded
    /\ \E j \in {"AutoUpdate", "AutoBuilder"} : ~stopped[j]
    /\ stopped' = [j \in Jobs |-> IF j \in {"AutoUpdate", "AutoBuilder"}
                                    THEN TRUE ELSE stopped[j]]
    /\ UNCHANGED <<now, setting, pc, delay, before_start, pause, first_round,
                   last_run, d, wake, joining, startedAt, returned, inRound>>
    /\ UNCHANGED statsVars

InitPlugin ==
    JobInit({}, [j \in Jobs |-> 1], [j \in Jobs |-> NoJob],
            0..MaxDelay, {Missing, SaveStats(EmptyStats)})

NextPlugin ==
    \/ PluginInit
    \/ JobStep("AutoUpdate")
    \/ JobStep("AutoBuilder")
    \/ PluginStop
    \/ Tick
    \/ SettingsChange

SpecPlugin == InitPlugin /\ [][NextPlugin]_vars

\* ------------------------------------------ the update check

\* what fetching and parsing the release list can raise: urlopen fails, the
\* body is not JSON, a release lacks a key, a tag is not a version
UpdateFailures == {"URLError", "JSONDecodeError", "KeyError", "ValueError"}

Swallowed_OnlyURLError(exc) == exc = "URLError"

\* except Exception as e: every one of them is an Exception
Swallowed(exc) == exc \in {"URLError", "JSONDecodeError", "KeyError", "ValueError"}

\* BasePlugin.init: the AutoUpdate job is built with a fixed delay and started
BaseInit ==
    /\ pc["AutoUpdate"] = "none"
    /\ \E arg \in 1..MaxDelay :
         delay' = [delay EXCEPT !["AutoUpdate"] = CtorDelay(arg)]
    /\ pc' = [pc EXCEPT !["AutoUpdate"] = "before"]
    /\ UNCHANGED <<now, setting, before_start, stopped, pause, first_round, last_run,
                   d, wake, joining, startedAt, returned, inRound>>
    /\ UNCHANGED statsVars

\* AutoUpdate's update, check_update, when fetching or parsing raises exc: the
\* handler logs the error and check_update returns; an exception the handler
\* does not catch leaves update and run, and the thread ends
CheckUpdateFails(exc) ==
    /\ pc["AutoUpdate"] = "update"
    /\ failedAt' = now
    /\ startedAt' = [startedAt EXCEPT !["AutoUpdate"] = 0]
    /\ IF Swallowed(exc)
         THEN /\ pc' = [pc EXCEPT !["AutoUpdate"] = "lastrun"]
              /\ returned' = [returned EXCEPT !["AutoUpdate"] = TRUE]
         ELSE /\ pc' = [pc EXCEPT !["AutoUpdate"] = "done"]
              /\ UNCHANGED returned
    /\ UNCHANGED <<now, setting, delay, before_start, stopped, pause, first_round,
                   last_run, d, wake, joining, inRound>>
    /\ UNCHANGED <<stats, disk, loaded, nUp, sumSize, empty_stats, shared,
                   resetVars, fileVars, threadVars, init_error, inp, out,
                   default_songs, upd>>

\* BasePlugin.stop: self.auto_update.stop(False)
BaseStop ==
    /\ pc["AutoUpdate"] # "none"
    /\ ~stopped["AutoUpdate"]
    /\ stopped' = [stopped EXCEPT !["AutoUpdate"] = TRUE]
    /\ UNCHANGED <<now, setting, pc, delay, before_start, pause, first_round,
                   last_run, d, wake, joining, startedAt, returned, inRound>>
    /\ UNCHANGED statsVars

InitUpdate ==
    JobInit({}, [j \in Jobs |-> 1], [j \in Jobs |-> NoJob], {MaxDelay}, {Missing})

NextUpdate ==
    \/ BaseInit
    \/ JobStep("AutoUpdate")
    \/ \E exc \in UpdateFailures : CheckUpdateFails(exc)
    \/ BaseStop
    \/ Tick

SpecUpdate == InitUpdate /\ [][NextUpdate]_vars

\* ------------------------------------------ the jobs of the package's plugin

\* rebuild_playlist's default of total
DefaultTotal == 25

\* build_html reads the playlist file (file_link(..., as_base64=True) calls
\* read_bytes()): FileNotFoundError when there is none
BuildRaises(pl) == pl.kind = "missing"

\* the page build_html renders, by the counters it was rendered from
BuildHtml(s) == [kind |-> "html", day |-> s.day, songs |-> <<>>]

\* stats_html_file.touch() of a page that does not exist
Touched(pg) ==
    IF pg.kind = "missing" THEN [kind |-> "empty", day |-> <<>>, songs |-> <<>>] ELSE pg

M3u(s, total) == [kind |-> "m3u", day |-> <<>>, songs |-> RebuildPlaylist(s, total)]

\* pause_jobs(): self.auto_builder.pause(); self.auto_backup.pause() raises
\* AttributeError unless both attributes have been assigned
PauseJobsRaises(built) == ~({"AutoBuilder", "AutoBackup"} \subseteq built)

\* backup(reason): save_stats(backup_folder / "stats-<reason>-<timestamp>.json");
\* the timestamp has the resolution of a second, here of the clock
Backup(reason) == Put(backups, <<reason, now>>, Dumps(stats))

\* Plugin.init of the package: super().init(), load_stats(), then auto_builder
\* and auto_backup are built and started.  A stats file that is not JSON makes
\* load_stats call pause_jobs().  The AutoUpdate and SettingsWatcher jobs that
\* BasePlugin.init starts share no state with these two and are left out;
\* backup_interval does not change here, so auto_backup's callable is the number
\* it returns.
PkgInit ==
    /\ ~loaded
    /\ ~init_error
    /\ pc["AutoBuilder"] = "none"
    /\ stats' = LoadStats(stats, disk)[1]
    /\ disk' = LoadStats(stats, disk)[2]
    /\ shared' = SharedAfterLoad(shared, disk)
    /\ IF disk.kind = "corrupt" /\ PauseJobsRaises({j \in Jobs : pc[j] # "none"})
         THEN /\ init_error' = TRUE
              /\ UNCHANGED <<loaded, pc, delay, pause>>
         ELSE /\ loaded' = TRUE
              /\ \E arg \in 1..MaxDelay :
                    delay' = [delay EXCEPT !["AutoBuilder"] = CtorDelay(Callable),
                                           !["AutoBackup"] = arg]
              /\ pc' = [pc EXCEPT !["AutoBuilder"] = "before", !["AutoBackup"] = "before"]
              /\ pause' = [j \in Jobs |-> IF disk.kind = "corrupt"
                                              /\ j \in {"AutoBuilder", "AutoBackup"}
                                           THEN FALSE ELSE pause[j]]
              /\ UNCHANGED init_error
    /\ UNCHANGED <<now, setting, before_start, stopped, first_round, last_run, d, wake,
                   joining, startedAt, returned, inRound>>
    /\ UNCHANGED <<nUp, sumSize, empty_stats, resetVars, fileVars, threadVars,
                   failedAt, inp, out, default_songs, upd>>

\* auto_builder's update, rebuild_stats_output: rebuild_page(), then
\* rebuild_playlist().  An exception of build_html leaves update and run, and
\* the thread ends.
RebuildStatsOutput ==
    /\ pc["AutoBuilder"] = "update"
    /\ startedAt' = [startedAt EXCEPT !["AutoBuilder"] = 0]
    /\ IF BuildRaises(playlist)
         THEN /\ page' = Touched(page)
              /\ pc' = [pc EXCEPT !["AutoBuilder"] = "done"]
              /\ UNCHANGED <<playlist, returned>>
         ELSE /\ page' = BuildHtml(stats)
              /\ playlist' = M3u(stats, DefaultTotal)
              /\ pc' = [pc EXCEPT !["AutoBuilder"] = "lastrun"]
              /\ returned' = [returned EXCEPT !["AutoBuilder"] = TRUE]
    /\ UNCHANGED <<now, setting, delay, before_start, stopped, pause, first_round,
                   last_run, d, wake, joining, inRound>>
    /\ UNCHANGED <<stats, disk, loaded, nUp, sumSize, empty_stats, shared,
                   resetVars, threadVars, callVars>>

\* auto_backup's update, automatic_backup: backup("auto")
AutomaticBackup ==
    /\ pc["AutoBackup"] = "update"
    /\ startedAt' = [startedAt EXCEPT !["AutoBackup"] = 0]
    /\ backups' = Backup("auto")
    /\ pc' = [pc EXCEPT !["AutoBackup"] = "lastrun"]
    /\ returned' = [returned EXCEPT !["AutoBackup"] = TRUE]
    /\ UNCHANGED <<now, setting, delay, before_start, stopped, pause, first_round,
                   last_run, d, wake, joining, inRound>>
    /\ UNCHANGED <<stats, disk, loaded, nUp, sumSize, empty_stats, shared,
                   reset_flag, asked, pending, bak, fileVars, threadVars, callVars>>

\* pre_stop: auto_builder.stop(False); auto_backup is not stopped
PreStop ==
    /\ loaded
    /\ ~stopped["AutoBuilder"]
    /\ stopped' = [stopped EXCEPT !["AutoBuilder"] = TRUE]
    /\ UNCHANGED <<now, setting, pc, delay, before_start, pause, first_round,
                   last_run, d, wake, joining, startedAt, returned, inRound>>
    /\ UNCHANGED statsVars

\* the job thread can take a step now
Ready(j) ==
    \/ pc[j] \in {"before", "while", "delay", "check", "update", "lastrun", "round"}
    \/ pc[j] = "wait" /\ pause[j]
    \/ pc[j] = "sleep" /\ now >= wake[j]

\* the steps of the threads take no time: the clock advances when every job
\* thread is asleep, blocked or ended
TickIdle == (\A j \in Jobs : ~Ready(j)) /\ Tick

\* the stat() result of the uploads of this model
StatOk == [ok |-> TRUE, st_size |-> 1, st_mtime |-> 1, raises |-> "no"]

\* an installation with or without a stats file and a playlist file, or with a
\* stats file that is not JSON; build_interval is positive
InitPackage ==
    /\ JobsInit({}, [j \in Jobs |-> 1], [j \in Jobs |-> NoJob], 1..MaxDelay)
    /\ PluginStateInit({Missing, SaveStats(EmptyStats), Corrupt},
                       {NoFile, M3u(EmptyStats, DefaultTotal)})

NextPackage ==
    \/ PkgInit
    \/ JobLoop("AutoBuilder")
    \/ RebuildStatsOutput
    \/ JobLoop("AutoBackup")
    \/ AutomaticBackup
    \/ TrackFileUpload("u1", VirtualPath("/m/a.mp3"), "/m/a.mp3", StatOk, 0)
    \/ PreStop
    \/ TickIdle

SpecPackage == InitPackage /\ [][NextPackage]_vars

\* every job thread that can take a step eventually takes one, and the clock
\* advances
FairSpecPackage ==
    SpecPackage /\ WF_vars(JobLoop("AutoBuilder") \/ RebuildStatsOutput)
                /\ WF_vars(JobLoop("AutoBackup") \/ AutomaticBackup)
                /\ WF_vars(TickIdle)

\* ------------------------------------------ the report functions

\* every dict of at most five keys with totals of 1..MaxTotal
InitReport ==
    /\ JobsInit({}, [j \in Jobs |-> 1], [j \in Jobs |-> NoJob], {MaxDelay})
    /\ CountersInit({Missing}, {NoFile})
    /\ \E S \in SUBSET Library : inp \in [S -> [total : 1..MaxTotal]]

NextReport ==
    \/ \E rev \in Revisions, automatic \in BOOLEAN, configured \in 0..MaxTotal :
            CallThreshold(rev, automatic, configured)
    \/ \E threshold \in 0..MaxTotal : CallRows(threshold)
    \/ \E total \in 1..MaxTop : CallPlaylist(total)
    \/ \E automatic \in BOOLEAN, configured \in 0..MaxTotal :
            CallBuildHtml(automatic, configured)

SpecReport == InitReport /\ [][NextReport]_vars

\* ------------------------------------------ reset, and the threads

\* reset: self.reset_flag = True
Reset ==
    /\ loaded
    /\ cmd = "idle"
    /\ reset_flag' = TRUE
    /\ asked' = TRUE
    /\ pending' = TRUE
    /\ UNCHANGED <<stats, disk, loaded, nUp, sumSize, empty_stats, shared,
                   backups, bak, fileVars, threadVars, callVars>>
    /\ UNCHANGED jobVars

ResetAbort_KeepsFlag ==
    /\ loaded
    /\ cmd = "idle"
    /\ asked' = FALSE
    /\ pending' = FALSE
    /\ UNCHANGED <<stats, disk, loaded, nUp, sumSize, empty_stats, shared,
                   reset_flag, backups, bak, fileVars, threadVars, callVars>>
    /\ UNCHANGED jobVars

\* reset_abort: self.reset_flag = False
ResetAbort ==
    /\ loaded
    /\ cmd = "idle"
    /\ reset_flag' = FALSE
    /\ asked' = FALSE
    /\ pending' = FALSE
    /\ UNCHANGED <<stats, disk, loaded, nUp, sumSize, empty_stats, shared,
                   backups, bak, fileVars, threadVars, callVars>>
    /\ UNCHANGED jobVars

\* rebuild_page() and then rebuild_playlist(), as <<page, playlist>> after the
\* calls; an exception of build_html ends them after the page was touched
Rebuilt(s, pg, pl) ==
    IF BuildRaises(pl) THEN <<Touched(pg), pl>>
    ELSE <<BuildHtml(s), M3u(s, DefaultTotal)>>

\* reset_confirm: without the flag nothing is done; with it backup("reset") and
\* hard_reset(): self.stats = self.empty_stats.copy(), save_stats(),
\* rebuild_page(), rebuild_playlist().  The flag is left as it is.
ResetConfirm ==
    /\ loaded
    /\ cmd = "idle" /\ host = "idle"
    /\ IF ~reset_flag
         THEN UNCHANGED <<stats, shared, disk, backups, page, playlist>>
         ELSE /\ backups' = Backup("reset")
              /\ stats' = empty_stats
              /\ shared' = StatKeys
              /\ disk' = SaveStats(stats')
              /\ page' = Rebuilt(stats', page, playlist)[1]
              /\ playlist' = Rebuilt(stats', page, playlist)[2]
    /\ pending' = (pending /\ ~reset_flag)
    /\ UNCHANGED <<loaded, nUp, sumSize, empty_stats, reset_flag, asked, bak,
                   threadVars, callVars>>
    /\ UNCHANGED jobVars

\* reset_stats of the single-file revision: the stats are saved to the
\* .bak.json file, self.stats = self.default_stats.copy(), save_stats()
ResetStats ==
    /\ loaded
    /\ cmd = "idle" /\ host = "idle"
    /\ bak' = SaveStats(stats)
    /\ stats' = empty_stats
    /\ shared' = StatKeys
    /\ disk' = SaveStats(stats')
    /\ UNCHANGED <<loaded, nUp, sumSize, empty_stats, reset_flag, asked, pending,
                   backups, fileVars, threadVars, callVars>>
    /\ UNCHANGED jobVars

InitReset ==
    JobInit({}, [j \in Jobs |-> 1], [j \in Jobs |-> NoJob],
            {MaxDelay}, {Missing, SaveStats(EmptyStats)})

NextReset ==
    \/ PluginLoad
    \/ \E user \in Users, real_path \in Files :
            TrackFileUpload(user, VirtualPath(real_path), real_path, StatOk, 0)
    \/ Reset
    \/ ResetAbort
    \/ ResetConfirm
    \/ ResetStats
    \/ Restart

SpecReset == InitReset /\ [][NextReset]_vars

\* track_file_upload on the host's thread, up to save_stats(): the entries of
\* the file, of the user and of the weekday are assigned
TrackMutate(user, virtual_path, real_path, st, weekday) ==
    /\ loaded
    /\ host = "idle"
    /\ FnSum(nUp, Files) < MaxUploads
    /\ Caught(st)
    /\ nUp' = [nUp EXCEPT ![real_path] = @ + 1]
    /\ sumSize' = [sumSize EXCEPT ![real_path] = @ + st.st_size]
    /\ stats' = Tracked(stats, user, virtual_path, real_path, st, weekday)
    /\ empty_stats' = Aliased(empty_stats, stats', shared)
    /\ host' = "save"
    /\ UNCHANGED <<disk, loaded, shared, resetVars, fileVars, cmd, callVars>>
    /\ UNCHANGED jobVars

\* the save_stats() that ends track_file_upload
TrackSave ==
    /\ host = "save"
    /\ disk' = SaveStats(stats)
    /\ host' = "idle"
    /\ UNCHANGED <<stats, loaded, nUp, sumSize, empty_stats, shared,
                   resetVars, fileVars, cmd, callVars>>
    /\ UNCHANGED jobVars

\* a slash command: the wrapper starts a thread that runs the handler.  This
\* one runs reset_confirm, and finds the flag set.
ResetConfirmStart ==
    /\ loaded
    /\ cmd = "idle"
    /\ reset_flag
    /\ cmd' = "backup"
    /\ UNCHANGED <<stats, disk, loaded, nUp, sumSize, empty_stats, shared,
                   resetVars, fileVars, host, callVars>>
    /\ UNCHANGED jobVars

\* the steps of that thread: backup("reset") ...
ResetBackup ==
    /\ cmd = "backup"
    /\ backups' = Backup("reset")
    /\ cmd' = "assign"
    /\ UNCHANGED <<stats, disk, loaded, nUp, sumSize, empty_stats, shared,
                   reset_flag, asked, pending, bak, fileVars, host, callVars>>
    /\ UNCHANGED jobVars

\* ... hard_reset: self.stats = self.empty_stats.copy() ...
HardResetAssign ==
    /\ cmd = "assign"
    /\ stats' = empty_stats
    /\ shared' = StatKeys
    /\ cmd' = "save"
    /\ UNCHANGED <<disk, loaded, nUp, sumSize, empty_stats,
                   resetVars, fileVars, host, callVars>>
    /\ UNCHANGED jobVars

\* ... save_stats() ...
HardResetSave ==
    /\ cmd = "save"
    /\ disk' = SaveStats(stats)
    /\ cmd' = "rebuild"
    /\ UNCHANGED <<stats, loaded, nUp, sumSize, empty_stats, shared,
                   resetVars, fileVars, host, callVars>>
    /\ UNCHANGED jobVars

\* ... rebuild_page(), rebuild_playlist(), and the thread ends
HardResetRebuild ==
    /\ cmd = "rebuild"
    /\ page' = Rebuilt(stats, page, playlist)[1]
    /\ playlist' = Rebuilt(stats, page, playlist)[2]
    /\ cmd' = "idle"
    /\ UNCHANGED <<stats, disk, loaded, nUp, sumSize, empty_stats, shared,
                   resetVars, host, callVars>>
    /\ UNCHANGED jobVars

NextThreads ==
    \/ PluginLoad
    \/ \E user \in Users, real_path \in Files :
            TrackMutate(user, VirtualPath(real_path), real_path, StatOk, 0)
    \/ TrackSave
    \/ Reset
    \/ ResetConfirmStart
    \/ ResetBackup
    \/ HardResetAssign
    \/ HardResetSave
    \/ HardResetRebuild

SpecThreads == InitReset /\ [][NextThreads]_vars

\* ------------------------------------------ backup and restore

\* the backup commands of one run stop at this many backup files
MaxBackups == 3

\* json.loads(file.read_text()): the dict of the document's members
Loads(doc) ==
    [k \in Keys(doc) |->
        IF k = "file" THEN FileObjectLoads(Member(doc, k))
        ELSE IF k = "user" THEN UserObjectLoads(Member(doc, k))
        ELSE Member(doc, k)]

\* i.stat().st_mtime of a backup file: a file of the name stats-<reason>-<t>
\* is written at t only
MTime(file) == file[2]

Newest_WithNew(bs, new_backup) ==
    {f \in DOMAIN bs : \A g \in DOMAIN bs : MTime(g) <= MTime(f)}

\* the files backups[0] can be: sorted(backups, reverse=True, key=st_mtime) is
\* stable, so among files of one mtime the order of glob() decides; the file
\* backup("restore") returned is filtered out
Newest(bs, new_backup) ==
    LET others == DOMAIN bs \ {new_backup}
    IN {f \in others : \A g \in others : MTime(g) <= MTime(f)}

\* /up-backup: backup("manual")
BackupCmd ==
    /\ loaded
    /\ cmd = "idle" /\ host = "idle"
    /\ Cardinality(DOMAIN backups) < MaxBackups
    /\ backups' = Backup("manual")
    /\ UNCHANGED <<stats, disk, loaded, nUp, sumSize, empty_stats, shared,
                   reset_flag, asked, pending, bak, fileVars, threadVars, callVars>>
    /\ UNCHANGED jobVars

\* restore(file=None): backup("restore"), the newest other backup is chosen
\* (without one the command ends), self.stats = json.loads(...), save_stats(),
\* rebuild_page(), rebuild_playlist().  The backup files are the ones
\* save_stats wrote, so json.loads does not raise.
Restore ==
    /\ loaded
    /\ cmd = "idle" /\ host = "idle"
    /\ Cardinality(DOMAIN backups) < MaxBackups
    /\ backups' = Backup("restore")
    /\ IF Newest(backups', <<"restore", now>>) = {}
         THEN UNCHANGED <<stats, disk, shared, page, playlist>>
         ELSE \E file \in Newest(backups', <<"restore", now>>) :
                 /\ stats' = Loads(backups'[file])
                 /\ shared' = {}
                 /\ disk' = SaveStats(stats')
                 /\ page' = Rebuilt(stats', page, playlist)[1]
                 /\ playlist' = Rebuilt(stats', page, playlist)[2]
    /\ UNCHANGED <<loaded, nUp, sumSize, empty_stats, reset_flag, asked, pending,
                   bak, threadVars, callVars>>
    /\ UNCHANGED jobVars

InitRestore ==
    JobInit({}, [j \in Jobs |-> 1], [j \in Jobs |-> NoJob],
            {MaxDelay}, {Missing, SaveStats(EmptyStats)})

NextRestore ==
    \/ PluginLoad
    \/ TrackFileUpload("u1", VirtualPath("/m/a.mp3"), "/m/a.mp3", StatOk, 0)
    \/ BackupCmd
    \/ Restore
    \/ Tick

SpecRestore == InitRestore /\ [][NextRestore]_vars

\* ------------------------------------------ a callback that raises

UpdateRaises_Handled(j) ==
    /\ pc[j] = "update"
    /\ pc' = [pc EXCEPT ![j] = "round"]
    /\ startedAt' = [startedAt EXCEPT ![j] = 0]
    /\ UNCHANGED <<now, setting, delay, before_start, stopped, pause, first_round,
                   last_run, d, wake, joining, returned, inRound>>
    /\ UNCHANGED statsVars

\* self.update() raises: run has no try, the exception leaves the while loop
\* and run, and the thread ends
UpdateRaises(j) ==
    /\ pc[j] = "update"
    /\ pc' = [pc EXCEPT ![j] = "done"]
    /\ startedAt' = [startedAt EXCEPT ![j] = 0]
    /\ UNCHANGED <<now, setting, delay, before_start, stopped, pause, first_round,
                   last_run, d, wake, joining, returned, inRound>>
    /\ UNCHANGED statsVars

\* the two jobs of the plugin, AutoBuilder waiting in before_start for
\* AutoUpdate's first round, with an update of AutoUpdate that returns or raises
InitRaise ==
    JobInit({}, [j \in Jobs |-> 1], [j \in Jobs |-> NoJob], 1..MaxDelay, {Missing})

NextRaise ==
    \/ PluginInit
    \/ JobStep("AutoUpdate")
    \/ UpdateRaises("AutoUpdate")
    \/ JobStep("AutoBuilder")
    \/ PluginStop
    \/ Tick

SpecRaise == InitRaise /\ [][NextRaise]_vars

\* ------------------------------------------ the playlist of the single-file plugin

\* create_m3u's default of top_x
TopX == 25

\* create_m3u: for song in all_songs, appending the audio files to songs
RECURSIVE SongsLoop(_, _, _, _)
SongsLoop(all_songs, i, sgs, top_x) ==
    IF i > Len(all_songs) THEN sgs
    ELSE IF IsAudio(all_songs[i])
           THEN LET appended == Append(sgs, all_songs[i])
                IN IF Len(appended) = top_x THEN appended
                   ELSE SongsLoop(all_songs, i + 1, appended, top_x)
           ELSE SongsLoop(all_songs, i + 1, sgs, top_x)

CreateM3uSongs_Fresh(file_map, sgs, top_x) ==
    SongsLoop(SortedByTotal(KeySeq(DOMAIN file_map), file_map), 1, <<>>, top_x)

\* create_m3u(self, songs=[], top_x=25): the list songs after the call, which
\* is what the playlist file lists.  The loop runs only if songs is empty.
CreateM3uSongs(file_map, sgs, top_x) ==
    IF sgs = <<>>
      THEN SongsLoop(SortedByTotal(KeySeq(DOMAIN file_map), file_map), 1, sgs, top_x)
      ELSE sgs

\* update_stats(page=False) / create_m3u(): songs is the default's list object,
\* which is built once, when the function is defined, and which append
\* changes; out.num counts the calls
CallCreateM3u ==
    /\ out.num < MaxCalls
    /\ default_songs' = CreateM3uSongs(inp, default_songs, TopX)
    /\ playlist' = [kind |-> "m3u", day |-> <<>>, songs |-> default_songs']
    /\ out' = [fn |-> "create_m3u", rev |-> "single-file", auto |-> FALSE, arg |-> TopX,
               raises |-> "no", num |-> out.num + 1, rows |-> default_songs']
    /\ UNCHANGED <<stats, disk, loaded, nUp, sumSize, empty_stats, shared,
                   resetVars, page, threadVars, init_error, failedAt, inp, upd>>
    /\ UNCHANGED jobVars

\* upload_finished_notification, on the entry of real_path in stats["file"]
UploadFinished(real_path) ==
    /\ Get(inp, real_path, "total") < MaxTotal
    /\ inp' = Put(inp, real_path, [total |-> Get(inp, real_path, "total") + 1])
    /\ UNCHANGED <<stats, disk, loaded, nUp, sumSize, empty_stats, shared,
                   resetVars, fileVars, threadVars, init_error, failedAt, out,
                   default_songs, upd>>
    /\ UNCHANGED jobVars

\* a plugin that has just been loaded, with the stats of earlier runs
InitM3u ==
    /\ JobsInit({}, [j \in Jobs |-> 1], [j \in Jobs |-> NoJob], {MaxDelay})
    /\ CountersInit({Missing}, {NoFile})
    /\ \E S \in SUBSET Library : inp \in [S -> [total : 1..MaxTotal]]

NextM3u ==
    \/ CallCreateM3u
    \/ \E real_path \in Library : UploadFinished(real_path)

SpecM3u == InitM3u /\ [][NextM3u]_vars

\* ------------------------------------------ the self-update

\* the steps of _update change upd only
UpdateFrame ==
    /\ UNCHANGED <<stats, disk, loaded, nUp, sumSize, empty_stats, shared,
                   resetVars, fileVars, threadVars, init_error, failedAt, inp, out,
                   default_songs>>
    /\ UNCHANGED jobVars

\* the files clean_folder() unlinks: the ones is_protected does not hold back
Removable(files) == files \ Protected

Reenables_Always(rollback_needed, rollback_success) == TRUE

\* if rollback_needed and rollback_success or not rollback_needed
Reenables(rollback_needed, rollback_success) ==
    (rollback_needed /\ rollback_success) \/ ~rollback_needed

\* update_plugin starts the thread of _update: an old backup.tar.gz is
\* unlinked, rollback_needed = False
UpdatePlugin ==
    /\ upd.pc \in {"idle", "done"}
    /\ upd' = [upd EXCEPT !.pc = "disable", !.files = @ \ {"backup.tar.gz"},
                          !.disabled = FALSE, !.downloaded = FALSE,
                          !.rollback_needed = FALSE, !.rollback_success = FALSE,
                          !.error = "", !.reenable = ""]
    /\ UpdateFrame

\* handler.disable_plugin(plugin_name) returns or raises
DisablePlugin(ok) ==
    /\ upd.pc = "disable"
    /\ upd' = IF ok THEN [upd EXCEPT !.pc = "backup", !.enabled = FALSE, !.disabled = TRUE]
              ELSE [upd EXCEPT !.pc = "except", !.error = "disable"]
    /\ UpdateFrame

\* tarfile.open(backup_file, "w:gz") and tar_handle.add(BASE_PATH, "")
CreateBackup(ok) ==
    /\ upd.pc = "backup"
    /\ upd' = IF ok THEN [upd EXCEPT !.pc = "download", !.files = @ \cup {"backup.tar.gz"}]
              ELSE [upd EXCEPT !.pc = "except", !.error = "backup"]
    /\ UpdateFrame

\* request.urlopen(tarball_url) and extractall into the temporary directory
DownloadUpdate(ok) ==
    /\ upd.pc = "download"
    /\ upd' = IF ok THEN [upd EXCEPT !.pc = "clean", !.downloaded = TRUE]
              ELSE [upd EXCEPT !.pc = "except", !.error = "download"]
    /\ UpdateFrame

\* rollback_needed = True, then clean_folder(): it unlinks the removable files
\* one after the other, and an unlink that raises ends it with the files it
\* has not reached yet still there
CleanFolder(removed, ok) ==
    /\ upd.pc = "clean"
    /\ removed \subseteq Removable(upd.files)
    /\ ok <=> removed = Removable(upd.files)
    /\ upd' = [upd EXCEPT !.rollback_needed = TRUE, !.files = @ \ removed,
                          !.pc = IF ok THEN "install" ELSE "except",
                          !.error = IF ok THEN "" ELSE "clean"]
    /\ UpdateFrame

\* move_folder(dic.name): move_folder evaluates dic.name of its argument,
\* which here is the str dic.name, so it raises AttributeError; the enabling
\* of the new version that follows it is never reached
InstallNewData ==
    /\ upd.pc = "install"
    /\ upd' = [upd EXCEPT !.pc = "except", !.error = "install"]
    /\ UpdateFrame

\* the handler of the outer try, if rollback_needed: clean_folder(), the backup
\* is extracted, move_folder(backup_dic).  backup_dic is the str the with
\* statement binds, so move_folder raises here too when the steps before it
\* did not: rollback_success stays False.
Rollback(removed) ==
    /\ upd.pc = "except"
    /\ upd.rollback_needed
    /\ removed \subseteq Removable(upd.files)
    /\ upd' = [upd EXCEPT !.pc = "reenable", !.files = @ \ removed,
                          !.rollback_success = FALSE]
    /\ UpdateFrame

\* the handler of the outer try, from "reenabled": handler.enable_plugin is
\* called, and returns or raises, unless a rollback was needed and failed
Reenable(ok) ==
    /\ \/ upd.pc = "reenable"
       \/ upd.pc = "except" /\ ~upd.rollback_needed
    /\ upd' = IF Reenables(upd.rollback_needed, upd.rollback_success)
                THEN [upd EXCEPT !.pc = "done",
                                 !.enabled = IF ok THEN TRUE ELSE @,
                                 !.reenable = IF ok THEN "ok" ELSE "raised"]
                ELSE [upd EXCEPT !.pc = "done"]
    /\ UpdateFrame

InitSelfUpdate ==
    /\ JobsInit({}, [j \in Jobs |-> 1], [j \in Jobs |-> NoJob], {MaxDelay})
    /\ PluginStateInit({Missing}, {NoFile})

NextSelfUpdate ==
    \/ UpdatePlugin
    \/ \E ok \in BOOLEAN : DisablePlugin(ok)
    \/ \E ok \in BOOLEAN : CreateBackup(ok)
    \/ \E ok \in BOOLEAN : DownloadUpdate(ok)
    \/ \E removed \in SUBSET PluginFiles, ok \in BOOLEAN : CleanFolder(removed, ok)
    \/ InstallNewData
    \/ \E removed \in SUBSET PluginFiles : Rollback(removed)
    \/ \E ok \in BOOLEAN : Reenable(ok)

SpecSelfUpdate == InitSelfUpdate /\ [][NextSelfUpdate]_vars

\* ------------------------------------------ uploads while the backup job runs

\* track_file_upload on the host's thread, statement by statement; no lock is
\* held, so the thread of a job can run between any two of them.
\* self.stats["day"][weekday] = self.stats["day"][weekday] + 1
TrackDay(weekday) ==
    /\ loaded
    /\ host = "idle"
    /\ FnSum(nUp, Files) < MaxUploads
    /\ nUp' = [nUp EXCEPT !["/m/a.mp3"] = @ + 1]
    /\ sumSize' = [sumSize EXCEPT !["/m/a.mp3"] = @ + StatOk.st_size]
    /\ stats' = [stats EXCEPT !.day = DayBump(stats.day, weekday)]
    /\ empty_stats' = Aliased(empty_stats, stats', shared)
    /\ host' = "file"
    /\ UNCHANGED <<disk, loaded, shared, resetVars, fileVars, cmd, callVars>>
    /\ UNCHANGED jobVars

\* self.stats["file"][real_path] = {...}
TrackFile(user, virtual_path, real_path, st) ==
    /\ host = "file"
    /\ stats' = [stats EXCEPT !.file = Tracked(stats, user, virtual_path, real_path, st, 0).file]
    /\ empty_stats' = Aliased(empty_stats, stats', shared)
    /\ host' = "user"
    /\ UNCHANGED <<disk, loaded, nUp, sumSize, shared, resetVars, fileVars, cmd, callVars>>
    /\ UNCHANGED jobVars

\* self.stats["user"][user] = {...}; save_stats() is next
TrackUser(user, virtual_path, real_path, st) ==
    /\ host = "user"
    /\ stats' = [stats EXCEPT !.user = Tracked(stats, user, virtual_path, real_path, st, 0).user]
    /\ empty_stats' = Aliased(empty_stats, stats', shared)
    /\ host' = "save"
    /\ UNCHANGED <<disk, loaded, nUp, sumSize, shared, resetVars, fileVars, cmd, callVars>>
    /\ UNCHANGED jobVars

\* the plugin of the package with its auto_backup job, and uploads of one file
\* to one user
InitSnapshot ==
    /\ JobsInit({}, [j \in Jobs |-> 1], [j \in Jobs |-> NoJob], {MaxDelay})
    /\ PluginStateInit({Missing, SaveStats(EmptyStats)}, {NoFile})

NextSnapshot ==
    \/ PkgInit
    \/ JobLoop("AutoBackup")
    \/ AutomaticBackup
    \/ TrackDay(0)
    \/ TrackFile("u1", VirtualPath("/m/a.mp3"), "/m/a.mp3", StatOk)
    \/ TrackUser("u1", VirtualPath("/m/a.mp3"), "/m/a.mp3", StatOk)
    \/ TrackSave
    \/ Tick

SpecSnapshot == InitSnapshot /\ [][NextSnapshot]_vars

\* ------------------------------------------ the statistics of one plugin

InitStats ==
    JobInit({}, [j \in Jobs |-> 1], [j \in Jobs |-> NoJob],
            {MaxDelay}, {Missing, SaveStats(EmptyStats)})

NextStats ==
    \/ PluginLoad
    \/ \E user \in Users, real_path \in Files, st \in StatResults, weekday \in Weekdays :
            TrackFileUpload(user, VirtualPath(real_path), real_path, st, weekday)
    \/ Restart

SpecStats == InitStats /\ [][NextStats]_vars

\* ================================================================ claims

\* C1 (SpecJob): an invocation of update that follows an earlier one begins only
\* when more than the delay obtained in this polling round has passed since
\* last_run was set, never with a delay of 0, and a loop round invokes update at
\* most once.
C1_OncePerWindow ==
    \A j \in Jobs :
        /\ pc[j] = "update" =>
             /\ d[j] # 0
             /\ last_run[j] # None => startedAt[j] - last_run[j] > d[j]
        /\ inRound[j] <= 1

\* a second invocation of a job whose delay is computed has begun
C1_Witness ==
    pc["Job"] = "update" /\ last_run["Job"] # None /\ delay["Job"] = Callable

\* C2 as stated (SpecJob): first_round is set only after update has returned at
\* least once, for every delay.
C2_FirstRoundAfterUpdate == \A j \in Jobs : first_round[j] => returned[j]

\* C2 amended (SpecJob): first_round is set at the end of the first loop round;
\* update has returned by then unless the delay obtained in that round is 0.
C2_FirstRoundAfterRound ==
    [][\A j \in Jobs :
          (~first_round[j] /\ first_round'[j]) => (returned[j] \/ d[j] = 0)]_vars

\* a job with a computed delay has run update and then set first_round
C2_Witness ==
    first_round["Job"] /\ returned["Job"] /\ delay["Job"] = Callable

\* C3 (SpecPlugin): AutoBuilder's update never begins before AutoUpdate's update
\* has returned once.
C3_BuilderAfterUpdate ==
    /\ pc["AutoBuilder"] = "update" => returned["AutoUpdate"]
    /\ returned["AutoBuilder"] => returned["AutoUpdate"]

\* AutoBuilder is running its update
C3_Witness == pc["AutoBuilder"] = "update"

\* C4 (FairSpecJob): once stop() was called on a started job, the run loop exits
\* and the caller of stop(wait=True) gets back, whatever the pause state.
C4_StopTerminates ==
    (stopped["Job"] /\ pc["Job"] # "new") ~> (pc["Job"] = "done" /\ joining = NoJob)

\* C5 (SpecJob): update never begins while the job is paused.
C5_NoStartWhilePaused ==
    [][\A j \in Jobs : (pc[j] # "update" /\ pc'[j] = "update") => pause[j]]_vars

\* C6 (SpecStats): after N uploads of a real path its total is N and its
\* total_bytes is the sum of the sizes stat returned (0 for a failed stat).
C6_TotalAndBytes ==
    loaded => \A f \in DOMAIN stats.file :
                 /\ stats.file[f].total = nUp[f]
                 /\ stats.file[f].total_bytes = sumSize[f]

\* C7 (SpecStats): while the instance runs, no counter ever decreases.
C7_Monotone ==
    [][(loaded /\ loaded') =>
          /\ \A f \in DOMAIN stats.file :
                /\ f \in DOMAIN stats'.file
                /\ stats'.file[f].total >= stats.file[f].total
                /\ stats'.file[f].total_bytes >= stats.file[f].total_bytes
          /\ \A u \in DOMAIN stats.user :
                /\ u \in DOMAIN stats'.user
                /\ stats'.user[u].total >= stats.user[u].total
                /\ stats'.user[u].total_bytes >= stats.user[u].total_bytes
          /\ \A i \in 1..7 : stats'.day[i] >= stats.day[i]]_vars

\* C8 (SpecStats): the day array has 7 entries, and their sum is the number of
\* uploads recorded, the sum of the file totals and the sum of the user totals.
C8_DaySum ==
    loaded =>
        /\ Len(stats.day) = 7
        /\ SeqSum(stats.day) = FnSum(nUp, Files)
        /\ SeqSum(stats.day) = MapSum(stats.file, "total")
        /\ SeqSum(stats.day) = MapSum(stats.user, "total")

\* uploads on both weekdays, of both files, to both users
C8_Witness ==
    /\ loaded
    /\ stats.day[1] > 0 /\ stats.day[7] > 0
    /\ DOMAIN stats.file = Files /\ DOMAIN stats.user = Users

\* C9 (SpecStats): what a fresh instance loads from the stats file is the
\* counters map of the instance that wrote it.
C9_RoundTrip ==
    loaded => LoadStats(EmptyStats, disk)[1] = stats

\* the file holds uploads of both files, one of them with a failed stat
C9_Witness ==
    /\ loaded
    /\ DOMAIN stats.file = Files
    /\ \E f \in Files : stats.file[f].file_size = 0
    /\ \E f \in Files : stats.file[f].total_bytes > 0
    /\ stats.day[7] > 0

\* C10 (SpecStats): an upload whose stat fails is recorded all the same: the
\* totals of the file and of the user and the weekday bucket go up by one, the
\* file's size and modification time are recorded as 0, and the stats are saved.
C10_MissingFileTolerated ==
    [][\A user \in Users, real_path \in Files, weekday \in Weekdays, st \in StatResults :
          (~st.ok /\ TrackFileUpload(user, VirtualPath(real_path), real_path, st, weekday))
          => /\ real_path \in DOMAIN stats'.file
             /\ user \in DOMAIN stats'.user
             /\ stats'.file[real_path].total = Get(stats.file, real_path, "total") + 1
             /\ stats'.user[user].total = Get(stats.user, user, "total") + 1
             /\ stats'.day[weekday + 1] = stats.day[weekday + 1] + 1
             /\ stats'.file[real_path].file_size = 0
             /\ stats'.file[real_path].last_modified = 0
             /\ disk'.kind = "json"
             /\ LoadsInto(EmptyStats, disk'.doc) = stats']_vars

\* an upload whose stat failed has been recorded for a file seen before
C10_Witness ==
    /\ loaded
    /\ \E f \in DOMAIN stats.file : stats.file[f].file_size = 0 /\ stats.file[f].total > 1

\* C11 (SpecStats): when load_stats finds no stats file it creates one, and the
\* file and the counters map in memory then hold no files, no users and seven
\* zero weekday buckets.
C11_MissingFileCreated ==
    [][(PluginLoad /\ disk.kind = "missing") =>
          /\ disk'.kind = "json"
          /\ Keys(disk'.doc) = StatKeys
          /\ Member(disk'.doc, "file") = <<>>
          /\ Member(disk'.doc, "user") = <<>>
          /\ Member(disk'.doc, "day") = <<0, 0, 0, 0, 0, 0, 0>>
          /\ stats' = EmptyStats]_vars

\* the plugin runs on a stats file that load_stats created
C11_Witness ==
    loaded /\ shared = StatKeys /\ disk = SaveStats(EmptyStats) /\ stats = EmptyStats

\* C12 (SpecPackage): once Plugin.init has run on a stats file that is not
\* JSON, auto_builder and auto_backup exist and are paused, and their callbacks
\* are not invoked.
C12_JobsPausedAfterCorrupt ==
    (disk.kind = "corrupt" /\ (loaded \/ init_error)) =>
        \A j \in {"AutoBuilder", "AutoBackup"} :
            pc[j] \notin {"none", "update"} /\ ~pause[j]

\* C13 (SpecUpdate): a check_update that fails returns like one that succeeds:
\* the AutoUpdate thread ends only when the job is stopped, first_round is set
\* at the end of the round the failure happened in, and the next check begins
\* only when more than the delay has passed since the failure.
C13_FailureSwallowed ==
    /\ pc["AutoUpdate"] = "done" => stopped["AutoUpdate"]
    /\ (failedAt # None /\ pc["AutoUpdate"] \notin {"lastrun", "round"})
         => first_round["AutoUpdate"]
    /\ (failedAt # None /\ pc["AutoUpdate"] = "update")
         => startedAt["AutoUpdate"] - failedAt > d["AutoUpdate"]

\* the check that follows a failed check has begun
C13_Witness ==
    failedAt # None /\ pc["AutoUpdate"] = "update" /\ ~stopped["AutoUpdate"]

\* C14 (SpecReport): with the automatic threshold on, user_threshold() /
\* file_threshold() returns 0 when the dict is empty and otherwise the distinct
\* total that has floor(0.25 * k) of the k distinct totals below it; with the
\* automatic threshold off it returns the configured threshold.
C14_Threshold ==
    out.fn = "threshold" =>
        /\ out.raises = "no"
        /\ IF ~out.auto THEN out.num = out.arg
           ELSE IF DOMAIN inp = {} THEN out.num = 0
           ELSE LET totals == {inp[k].total : k \in DOMAIN inp}
                IN /\ out.num \in totals
                   /\ Cardinality({t \in totals : t < out.num})
                        = Cardinality(totals) \div 4

\* C15 (FairSpecPackage): once the initialised plugin has recorded n uploads,
\* with a positive build interval, the builder job not stopped and the time of
\* one more build interval ahead, the builder job eventually writes a page
\* rendered from counters that hold these n uploads (or the job is stopped).
C15_EventuallyRendered ==
    \A n \in 1..MaxUploads :
        (/\ loaded /\ ~stopped["AutoBuilder"] /\ setting > 0
         /\ SeqSum(stats.day) >= n
         /\ now + setting + 1 <= MaxTime)
        ~> (\/ page.kind = "html" /\ SeqSum(page.day) >= n
            \/ stopped["AutoBuilder"])

\* C16 (SpecThreads): the host's thread is never inside track_file_upload
\* while the thread of a command is inside reset_confirm.
C16_NoConcurrentWriters == ~(host # "idle" /\ cmd # "idle")

\* C17 (SpecReport): rebuild_playlist(total) lists min(total, number of
\* recorded audio files) files, each a recorded audio file and none twice, in
\* descending order of total, and no recorded audio file left out has a higher
\* total than a listed one.
C17_TopAudio ==
    out.fn = "playlist" =>
        LET audio == DOMAIN inp \cap {"/m/a.mp3", "/m/c.wav", "/m/d.mp3"}
            songs == out.rows
            listed == {songs[i] : i \in DOMAIN songs}
        IN /\ Len(songs) = Min(out.arg, Cardinality(audio))
           /\ listed \subseteq audio
           /\ Cardinality(listed) = Len(songs)
           /\ \A i, j \in DOMAIN songs :
                 i < j => inp[songs[i]].total >= inp[songs[j]].total
           /\ \A f \in audio \ listed, g \in listed : inp[f].total <= inp[g].total

\* more audio files are recorded than the playlist takes, and a file that is
\* not audio has the highest total
C17_Witness ==
    /\ out.fn = "playlist"
    /\ DOMAIN inp = Library
    /\ Len(out.rows) = out.arg
    /\ \A f \in Library : inp[f].total <= inp["/m/b.txt"].total
    /\ inp["/m/a.mp3"].total < inp["/m/d.mp3"].total

\* C18 (SpecReport): the rows of user_stats(threshold) / file_stats(threshold)
\* are the keys whose total is greater than the threshold, each once, in
\* descending order of total.
C18_RowsAboveThreshold ==
    out.fn = "rows" =>
        LET rows == out.rows
        IN /\ {rows[i] : i \in DOMAIN rows} = {k \in DOMAIN inp : inp[k].total > out.arg}
           /\ Len(rows) = Cardinality({k \in DOMAIN inp : inp[k].total > out.arg})
           /\ \A i, j \in DOMAIN rows :
                 i < j => inp[rows[i]].total >= inp[rows[j]].total

\* a table with rows of different totals, one key hidden at the threshold
C18_Witness ==
    /\ out.fn = "rows"
    /\ Len(out.rows) >= 2
    /\ inp[out.rows[1]].total > inp[out.rows[Len(out.rows)]].total
    /\ \E k \in DOMAIN inp : inp[k].total = out.arg

\* C19 (SpecReset): reset_confirm writes a backup of the stats and performs the
\* hard reset when reset was called and reset_abort was not called since;
\* otherwise it leaves the stats, the stats file and the backup folder as
\* they are.
C19_ConfirmOnlyAfterReset ==
    [][ResetConfirm =>
          IF asked
            THEN /\ <<"reset", now>> \in DOMAIN backups'
                 /\ backups'[<<"reset", now>>] = Dumps(stats)
                 /\ stats' = empty_stats
                 /\ disk' = SaveStats(stats')
            ELSE UNCHANGED <<stats, disk, backups>>]_vars

\* a confirmed reset has been performed on stats that held an upload
C19_Witness ==
    /\ loaded /\ asked
    /\ \E b \in DOMAIN backups : Member(backups[b], "day") # EmptyStats.day

\* C20 (SpecReset): right after a performed reset (hard_reset through
\* reset_confirm, or reset_stats) the stats in memory and the stats file hold
\* no files, no users and seven zero weekday buckets.
C20_ResetToEmpty ==
    [][((ResetConfirm /\ reset_flag) \/ ResetStats) =>
          /\ stats' = EmptyStats
          /\ disk' = SaveStats(EmptyStats)]_vars

\* C21 (FairSpecPackage): after the plugin's stop has run pre_stop, the
\* auto_builder and the auto_backup job both eventually leave their run loop
\* (and so invoke their callback no more).
C21_AllJobsStop ==
    \A j \in {"AutoBuilder", "AutoBackup"} :
        stopped["AutoBuilder"] ~> pc[j] = "done"

C23_RaiseEndsJob ==
    [][/\ UpdateRaises("AutoUpdate") =>
             /\ pc'["AutoUpdate"] = "done"
             /\ first_round'["AutoUpdate"] = first_round["AutoUpdate"]
       /\ \A j \in {"AutoUpdate", "AutoBuilder"} :
             pc[j] = "done" =>
                /\ pc'[j] = "done"
                /\ first_round'[j] = first_round[j]
                /\ inRound'[j] = inRound[j]
       /\ ~first_round'["AutoUpdate"] =>
             /\ pc'["AutoBuilder"] \in {"none", "before"}
             /\ ~returned'["AutoBuilder"]
             /\ inRound'["AutoBuilder"] = 0]_vars

\* AutoUpdate's first update raised; the clock has run out, first_round is not
\* set, and AutoBuilder, not stopped, is still in before_start
C23_Witness ==
    /\ pc["AutoUpdate"] = "done"
    /\ ~stopped["AutoUpdate"]
    /\ ~first_round["AutoUpdate"]
    /\ pc["AutoBuilder"] = "before"
    /\ now = MaxTime



\* C24 (SpecM3u): every create_m3u() without a song list writes min(25, number
\* of recorded audio files) files, each a recorded audio file and none twice,
\* in descending order of their totals at that call, and no recorded audio
\* file left out has a higher total than a listed one.
C24_PlaylistIsCurrentTop ==
    [][CallCreateM3u =>
          LET audio == {f \in DOMAIN inp : IsAudio(f)}
              written == playlist'.songs
              listed == {written[i] : i \in DOMAIN written}
          IN /\ Len(written) = Min(TopX, Cardinality(audio))
             /\ listed \subseteq audio
             /\ Cardinality(listed) = Len(written)
             /\ \A i, j \in DOMAIN written :
                   i < j => inp[written[i]].total >= inp[written[j]].total
             /\ \A f \in audio \ listed, g \in listed :
                   inp[f].total <= inp[g].total]_vars



\* C25 (SpecStats): an upload of real path f to user u leaves every file entry
\* but f's and every user entry but u's as it was (none added, none removed),
\* and adds one to one weekday bucket, the others staying as they were.
C25_UploadFrame ==
    [][\A user \in Users, real_path \in Files :
          (\E st \in StatResults, weekday \in Weekdays :
              TrackFileUpload(user, VirtualPath(real_path), real_path, st, weekday))
          => /\ DOMAIN stats'.file \ {real_path} = DOMAIN stats.file \ {real_path}
             /\ \A g \in DOMAIN stats.file \ {real_path} : stats'.file[g] = stats.file[g]
             /\ DOMAIN stats'.user \ {user} = DOMAIN stats.user \ {user}
             /\ \A v \in DOMAIN stats.user \ {user} : stats'.user[v] = stats.user[v]
             /\ real_path \in DOMAIN stats'.file /\ user \in DOMAIN stats'.user
             /\ DOMAIN stats'.day = DOMAIN stats.day
             /\ \E i \in DOMAIN stats.day :
                   /\ stats'.day[i] = stats.day[i] + 1
                   /\ \A k \in DOMAIN stats.day \ {i} : stats'.day[k] = stats.day[k]]_vars

\* a second upload, of another file to another user on another weekday, has
\* been recorded next to the first
C25_Witness ==
    /\ loaded
    /\ DOMAIN stats.file = Files
    /\ DOMAIN stats.user = Users
    /\ stats.day[1] = 1 /\ stats.day[7] = 1



C27_SingleReset ==
    [][(ResetConfirm /\ ~pending) => UNCHANGED <<stats, disk, backups>>]_vars



\* C28 (SpecReport): the table build_html renders with the automatic threshold
\* from a dict that holds at least one user (file) has at least one row.
C28_AutoShowsRow ==
    (out.fn = "build_html" /\ out.auto /\ DOMAIN inp # {}) => Len(out.rows) >= 1



\* C29 (SpecSnapshot): in every backup the auto_backup job has written, the
\* sum of the weekday buckets equals the sum of the totals of the files and
\* the sum of the totals of the users.
C29_ConsistentSnapshot ==
    \A b \in DOMAIN backups :
        b[1] = "auto" =>
            LET snapshot == Loads(backups[b])
            IN /\ SeqSum(snapshot.day) = MapSum(snapshot.file, "total")
               /\ SeqSum(snapshot.day) = MapSum(snapshot.user, "total")

====
